---------------------------- MODULE Spec2Model ----------------------------
(***************************************************************************)
(* The image distribution protocol of components/engine/commands.go:       *)
(* CmdPush (local graph -> registry) and CmdPulli (registry -> local       *)
(* graph), with the JSON codec helpers newImgJson / newMultipleImgJson.    *)
(*                                                                         *)
(* Image ids are the numbers 1..MaxChain; image i has parent i-1 and 0     *)
(* stands for the empty id (no parent).  A JSON text is a sequence of      *)
(* tokens; the token "null" stands for the four characters n,u,l,l         *)
(* wherever they occur, inside a string literal or as a bare value.        *)
(***************************************************************************)
EXTENDS Integers, Sequences, FiniteSets, TLC

\* Longest ancestor chain of the model (ids 1..MaxChain).
MaxChain == 2

\* Command invocations (push or pulli) in one behaviour.
MaxRuns == 2

\* Records in a history manifest served by an arbitrary registry.
MaxManifest == 2

Ids == 1..MaxChain

VARIABLES
  graph,      \* srv.runtime.graph: id -> [exists, img, layer]
  registry,   \* the remote registry: id -> [json, layer]
  cmd,        \* the command being run: "none", "push", "pull"
  pc,         \* position inside the running command
  arg,        \* cmd.Arg(0): the leaf (push) or target (pull) id
  cur,        \* the image the handler / loop body is working on
  jsonRaw,    \* push: bytes read from <root>/<id>/json
  history,    \* pull: records of the manifest not yet ranged over (id -> count)
  fetched,    \* pull: (img, layer) returned by getRemoteImage
  ret,        \* what the command handed back to its caller
  runs,       \* invocations started so far
  moved,      \* whether the client has switched to a fresh host
  origin,     \* the graph the behaviour started with
  plog,       \* push, per id: what was sent and answered in this invocation
  glog,       \* pull, per id: what was fetched and registered in this invocation
  aux,        \* pull: manifest GETs, snapshots of the graph, requests after an error
  peer        \* the locals of a second invocation while it is not the one stepping

vars == <<graph, registry, cmd, pc, arg, cur, jsonRaw, history, fetched, ret,
          runs, moved, origin, plog, glog, aux, peer>>

-----------------------------------------------------------------------------
(* Data model *)

\* Image: the fields the codec carries (Id, Parent, Comment).
Image(id, parent, comment) == [Id |-> id, Parent |-> parent, Comment |-> comment]

ZeroImage == Image(0, 0, <<>>)

\* A layer archive as it travels: the gzip'ed tar of a layer directory, or
\* some other byte stream.
NoArchive == [fmt |-> "none", content |-> 0]

\* Tar(path, Gzip): the compressed archive of a layer directory.
Tar(layer) == [fmt |-> "tgz", content |-> layer]

\* A body that is no archive (an error page of the registry).
ErrorPage == [fmt |-> "html", content |-> 0]

NoEntry == [exists |-> FALSE, img |-> ZeroImage, layer |-> 0]

\* graph.Exists(id)
Exists(g, id) == id \in Ids /\ g[id].exists

\* The layer directory content of image id.
LayerOf(id) == id

-----------------------------------------------------------------------------
(* JSON codec *)

IdChars(id) == IF id = 0 THEN <<>> ELSE <<ToString(id)>>

\* The id a string of characters names: 0 for the empty string, -1 for a
\* string that names no image of the model.
IdOf(chars) ==
  IF chars = <<>> THEN 0
  ELSE IF Len(chars) = 1 /\ \E i \in Ids : ToString(i) = chars[1]
       THEN CHOOSE i \in Ids : ToString(i) = chars[1]
       ELSE -1

Member(key, chars) == <<"q", key, "q", ":", "q">> \o chars \o <<"q">>

\* json.Marshal of an Image, as the graph persists it in <root>/<id>/json.
Marshal(img) ==
  <<"{">> \o Member("id", IdChars(img.Id)) \o <<",">>
          \o Member("parent", IdChars(img.Parent)) \o <<",">>
          \o Member("comment", img.Comment) \o <<"}">>

\* strings.Replace(string(src), "null", "\"\"", -1)
RECURSIVE Purify(_)
Purify(src) ==
  IF src = <<>> THEN <<>>
  ELSE (IF Head(src) = "null" THEN <<"q", "q">> ELSE <<Head(src)>>)
       \o Purify(Tail(src))

\* Index of the quote closing the string literal opened at s[i]; 0 if none.
RECURSIVE StrEnd(_, _)
StrEnd(s, j) ==
  IF j > Len(s) THEN 0
  ELSE IF s[j] = "q" THEN j ELSE StrEnd(s, j + 1)

SetField(img, key, chars) ==
  IF key = <<"id">> THEN [img EXCEPT !.Id = IdOf(chars)]
  ELSE IF key = <<"parent">> THEN [img EXCEPT !.Parent = IdOf(chars)]
  ELSE IF key = <<"comment">> THEN [img EXCEPT !.Comment = chars]
  ELSE img

DecodeError == [ok |-> FALSE, img |-> ZeroImage, next |-> 0]

\* The members of an object from s[k] on: "key":"value" pairs separated by
\* commas and closed by a brace.  Every field of Image is a string, so a
\* value that is no string literal is a decoding error.
RECURSIVE ParseMembers(_, _, _)
ParseMembers(s, k, img) ==
  IF k > Len(s) \/ s[k] # "q" THEN DecodeError
  ELSE LET e == StrEnd(s, k + 1) IN
    IF e = 0 \/ e + 2 > Len(s) \/ s[e + 1] # ":" \/ s[e + 2] # "q" THEN DecodeError
    ELSE LET f == StrEnd(s, e + 3) IN
      IF f = 0 \/ f + 1 > Len(s) THEN DecodeError
      ELSE LET img2 == SetField(img, SubSeq(s, k + 1, e - 1), SubSeq(s, e + 3, f - 1)) IN
        IF s[f + 1] = "}" THEN [ok |-> TRUE, img |-> img2, next |-> f + 2]
        ELSE IF s[f + 1] = "," THEN ParseMembers(s, f + 2, img2)
        ELSE DecodeError

\* One JSON object decoded into an Image, starting at s[i].
ParseObject(s, i) ==
  IF i + 1 > Len(s) \/ s[i] # "{" THEN DecodeError
  ELSE IF s[i + 1] = "}" THEN [ok |-> TRUE, img |-> ZeroImage, next |-> i + 2]
  ELSE ParseMembers(s, i + 1, ZeroImage)

\* json.Unmarshal(src, ret): one object and nothing after it.
Unmarshal(s) ==
  LET p == ParseObject(s, 1) IN
    IF p.ok /\ p.next = Len(s) + 1 THEN [ok |-> TRUE, img |-> p.img]
    ELSE [ok |-> FALSE, img |-> ZeroImage]

newImgJson(src) == Unmarshal(Purify(src))

\* dec.Decode in a loop until io.EOF: the records of a stream, in order.
RECURSIVE DecodeStream(_, _, _)
DecodeStream(s, i, acc) ==
  IF i > Len(s) THEN [ok |-> TRUE, imgs |-> acc]
  ELSE LET p == ParseObject(s, i) IN
    IF p.ok THEN DecodeStream(s, p.next, Append(acc, p.img))
    ELSE [ok |-> FALSE, imgs |-> <<>>]

newMultipleImgJson(src) == DecodeStream(Purify(src), 1, <<>>)

-----------------------------------------------------------------------------
(* The registry as the protocol sees it *)

NoJson == <<>>

EmptyRegistry == [i \in Ids |-> [json |-> NoJson, layer |-> NoArchive]]

\* The registry holds image id in full: metadata and layer.
HoldsInFull(r, id) == r[id].json # NoJson /\ r[id].layer # NoArchive

\* Answers to the metadata PUT: 0 is a transport error (res == nil),
\* otherwise res.StatusCode.
MetaAnswers == {0, 200, 204, 400, 500}

\* Answers to the negotiation PUT: status (0: transport error) and whether
\* res2.Location() yields a URL.
NegAnswers ==
  { [status |-> 0, loc |-> FALSE], [status |-> 307, loc |-> TRUE],
    [status |-> 307, loc |-> FALSE], [status |-> 500, loc |-> FALSE] }

\* Answers to the transfer PUT.
XferAnswers == {0, 200, 500}

\* No URL: res2.Location() failed.
NoUrl == <<>>

\* The storage URL the registry names in the Location header for the layer
\* of image id.
Location(id) == <<"storage", id>>

\* What the contract of the registry answers to a metadata PUT.
ContractMeta(r, id) == IF HoldsInFull(r, id) THEN 204 ELSE 200

\* What the registry holds of image id: nothing, part of it, or all of it.
Holding(r, id) ==
  IF HoldsInFull(r, id) THEN "full"
  ELSE IF r[id].json # NoJson \/ r[id].layer # NoArchive THEN "part"
  ELSE "nothing"

-----------------------------------------------------------------------------
(* Logs of one invocation *)

\* Push, per image: -1 is "not sent".
NoPush ==
  [visited |-> FALSE, read |-> "none", meta |-> -1, neg |-> -1, negLoc |-> FALSE,
   tar |-> "none", xfer |-> -1, metaN |-> 0, negN |-> 0, xferN |-> 0,
   diag |-> 0, result |-> "none", url |-> <<>>, to |-> <<>>]

\* Pull, per image; payloadId is the id the json payload carried (-2: no
\* payload decoded); clash: Register was called while the graph already held
\* the id; json, layer: the bodies the two GETs for the image brought, and
\* jsonStatus, layerStatus: the status codes they came with.
NoPull ==
  [exam |-> 0, present |-> 0, jsonN |-> 0, layerN |-> 0, regN |-> 0, stored |-> NoEntry,
   payloadId |-> -2, clash |-> FALSE, json |-> <<>>, layer |-> NoArchive,
   jsonStatus |-> 0, layerStatus |-> 0]

EmptyPlog == [i \in Ids |-> NoPush]

EmptyGlog == [i \in Ids |-> NoPull]

EmptyGraph == [i \in Ids |-> NoEntry]

EmptyHistory == [i \in Ids |-> 0]

NoFetched == [img |-> ZeroImage, layer |-> NoArchive]

InitAux(g) ==
  [manifestN |-> 0, start |-> g, pre |-> g, failed |-> 0, afterErr |-> 0,
   faithful |-> TRUE, synced |-> 0, manifest |-> EmptyHistory,
   held |-> FALSE, wrote |-> FALSE, part |-> FALSE, stream |-> "none", records |-> 0,
   first |-> 0, status |-> 0]

\* The locals of an invocation: what a second invocation keeps while the
\* first one is stepping.
Locals ==
  [cmd |-> cmd, pc |-> pc, arg |-> arg, cur |-> cur, history |-> history,
   fetched |-> fetched, ret |-> ret, glog |-> glog, aux |-> aux]

\* No second invocation.
IdleLocals(g) ==
  [cmd |-> "none", pc |-> "idle", arg |-> 0, cur |-> 0, history |-> EmptyHistory,
   fetched |-> NoFetched, ret |-> "nil", glog |-> EmptyGlog, aux |-> InitAux(g)]

-----------------------------------------------------------------------------
(* Initial states *)

\* The comment of image i when nullAt is the image (0: none) whose comment
\* contains the letters "null".
CommentOf(i, nullAt) == IF i = nullAt THEN <<"null", "a">> ELSE <<"a">>

\* The local graphs a behaviour starts from: the chain MaxChain -> ... -> 1,
\* image i layered on image i-1; the comment of the leaf may contain "null".
Graphs ==
  { [i \in Ids |-> [exists |-> TRUE, img |-> Image(i, i - 1, CommentOf(i, nullAt)),
                    layer |-> LayerOf(i)]] :
      nullAt \in {0, MaxChain} }

Init ==
  /\ graph \in Graphs
  /\ registry = EmptyRegistry
  /\ cmd = "none"
  /\ pc = "idle"
  /\ arg = 0
  /\ cur = 0
  /\ jsonRaw = <<>>
  /\ history = EmptyHistory
  /\ fetched = NoFetched
  /\ ret = "nil"
  /\ runs = 0
  /\ moved = FALSE
  /\ origin = graph
  /\ plog = EmptyPlog
  /\ glog = EmptyGlog
  /\ aux = InitAux(graph)
  /\ peer = IdleLocals(graph)

-----------------------------------------------------------------------------
(* CmdPush *)

\* img.WalkHistory: after the handler ran on image id, the walk goes on to
\* its parent; it ends at a root, or when the parent cannot be loaded.
WalkNext(g, id) ==
  LET p == g[id].img.Parent IN
    IF p \in Ids /\ Exists(g, p) THEN p ELSE 0

\* The ancestor chain of leaf in g, leaf first.
RECURSIVE WalkHistory(_, _)
WalkHistory(g, id) ==
  IF id = 0 THEN <<>> ELSE <<id>> \o WalkHistory(g, WalkNext(g, id))

ChainIds(g, leaf) ==
  IF Exists(g, leaf) THEN { WalkHistory(g, leaf)[k] : k \in 1..Len(WalkHistory(g, leaf)) }
  ELSE {}

\* A handler whose failure ends the walk.
HandlerReturnAbort(failed) == IF failed THEN "stop" ELSE "walk"

\* Where control goes when the handler returns for the current image: every
\* `return` of the closure, on failure or success, hands back to the walk.
HandlerReturn(failed) == "walk"

\* A handler that goes on to the layer phase on 204 as well.
MetaProceedsOn204(status) == status \in {200, 204}

\* The metadata answer that lets the handler go on to the layer phase.
MetaProceeds(status) == status = 200

\* A handler that is content with the status of the negotiation.
NegProceedsOnStatus(a) == a.status = 307

\* The negotiation answer that lets the handler go on to the transfer.
NegProceeds(a) == a.status = 307 /\ a.loc

\* url, err := res2.Location()
LocationOf(a, id) == IF a.loc THEN Location(id) ELSE NoUrl

\* The URL of the transfer request: http.NewRequest("PUT", url.String(), ...)
TransferTarget(log, id) == log[id].url

\* The transfer answer that counts as a success.
XferOk(status) == status = 200

\* A push that hands the failure of an image back to its caller.
PushResultOnFailure(log) ==
  IF \E i \in Ids : log[i].result = "failed" THEN "push failed" ELSE "nil"

\* What CmdPush returns once the walk is over: `return nil`, whatever the
\* handler met.
PushResult(log) == "nil"

\* The handler is over for image cur: the walk moves to the next ancestor,
\* and past the last one CmdPush returns.
EndHandler(failed, log) ==
  LET nxt == IF HandlerReturn(failed) = "walk" THEN WalkNext(graph, cur) ELSE 0 IN
    /\ plog' = log
    /\ cur' = nxt
    /\ pc' = IF nxt = 0 THEN "done" ELSE "visit"
    /\ ret' = IF nxt = 0 THEN PushResult(log) ELSE ret
    /\ jsonRaw' = <<>>

\* The names push may be given: the ids of the model, and 0 for a name
\* that graph.Get does not resolve.
Leaves == 0..MaxChain

\* CmdPush up to the walk: graph.Get(cmd.Arg(0)); when it fails the command
\* returns nil at once.
StartPush(leaf) ==
  /\ cmd = "none" /\ runs < MaxRuns
  /\ cmd' = "push"
  /\ runs' = runs + 1
  /\ arg' = leaf
  /\ ret' = "nil"
  /\ plog' = EmptyPlog
  /\ glog' = EmptyGlog
  /\ aux' = [InitAux(graph) EXCEPT
                !.synced = aux.synced,
                !.held = \A i \in ChainIds(graph, leaf) : HoldsInFull(registry, i),
                !.part = \E i \in ChainIds(graph, leaf) : Holding(registry, i) = "part"]
  /\ IF Exists(graph, leaf)
     THEN cur' = leaf /\ pc' = "visit"
     ELSE cur' = 0 /\ pc' = "done"
  /\ UNCHANGED <<peer, graph, registry, jsonRaw, history, fetched, moved, origin>>

\* The handler starts on image cur: "Pushing <id>", then ioutil.ReadFile of
\* its json.
PushVisit ==
  /\ cmd = "push" /\ pc = "visit"
  /\ \E readOk \in BOOLEAN :
       IF readOk
       THEN /\ jsonRaw' = Marshal(graph[cur].img)
            /\ plog' = [plog EXCEPT ![cur].visited = TRUE, ![cur].read = "ok"]
            /\ pc' = "meta"
            /\ UNCHANGED <<cur, ret>>
       ELSE EndHandler(TRUE, [plog EXCEPT ![cur].visited = TRUE, ![cur].read = "fail",
                                          ![cur].diag = @ + 1, ![cur].result = "failed"])
  /\ UNCHANGED <<peer, graph, registry, cmd, arg, history, fetched, runs, moved, origin,
                 glog, aux>>

\* PUT <endpoint>/images/<id>/json with the bytes read.
PushMetadata ==
  /\ cmd = "push" /\ pc = "meta"
  /\ \E a \in MetaAnswers :
       /\ registry' = IF a = 200 THEN [registry EXCEPT ![cur].json = jsonRaw] ELSE registry
       /\ aux' = [aux EXCEPT !.faithful = @ /\ a = ContractMeta(registry, cur),
                             !.wrote = @ \/ a = 200]
       /\ IF MetaProceeds(a)
          THEN /\ plog' = [plog EXCEPT ![cur].meta = a, ![cur].metaN = @ + 1]
               /\ pc' = "neg"
               /\ UNCHANGED <<cur, jsonRaw, ret>>
          ELSE EndHandler(a # 204,
                 [plog EXCEPT ![cur].meta = a, ![cur].metaN = @ + 1, ![cur].diag = @ + 1,
                              ![cur].result = IF a = 204 THEN "skipped" ELSE "failed"])
  /\ UNCHANGED <<peer, graph, cmd, arg, history, fetched, runs, moved, origin, glog>>

\* PUT <endpoint>/images/<id>/layer with an empty body.
PushNegotiate ==
  /\ cmd = "push" /\ pc = "neg"
  /\ \E a \in NegAnswers :
       /\ aux' = [aux EXCEPT !.faithful = @ /\ a.status = 307 /\ a.loc]
       /\ IF NegProceeds(a)
          THEN /\ plog' = [plog EXCEPT ![cur].neg = a.status, ![cur].negLoc = a.loc,
                                       ![cur].url = LocationOf(a, cur),
                                       ![cur].negN = @ + 1]
               /\ pc' = "xfer"
               /\ UNCHANGED <<cur, jsonRaw, ret>>
          ELSE EndHandler(TRUE,
                 [plog EXCEPT ![cur].neg = a.status, ![cur].negLoc = a.loc,
                              ![cur].url = LocationOf(a, cur),
                              ![cur].negN = @ + 1, ![cur].diag = @ + 1,
                              ![cur].result = "failed"])
  /\ UNCHANGED <<peer, graph, registry, cmd, arg, history, fetched, runs, moved, origin, glog>>

\* The body the registry keeps of a transfer: the archive, or what is left
\* of it when the declared Content-Length is shorter than the archive.
Received(layer, exact) ==
  IF exact THEN Tar(layer) ELSE [fmt |-> "cut", content |-> layer]

\* Tar twice, then PUT the archive to the negotiated Location.  The first
\* archive (layerData2) is read in full for its length only, and neither its
\* Tar error nor its read error is looked at; the second (layerData) is the
\* body, and only its Tar error is looked at.  tar2 says whether the second
\* call succeeded, tar1 whether the first archive was produced and read in
\* full, nilReader whether a failed first call handed back a nil reader.
\* The log keeps "ok" when the length declared is the length of the body and
\* "short" when the first archive broke off and the length declared is less.
PushTransfer ==
  /\ cmd = "push" /\ pc = "xfer"
  /\ \E tar1 \in BOOLEAN, tar2 \in BOOLEAN, nilReader \in BOOLEAN, a \in XferAnswers :
       IF ~tar2
       THEN /\ EndHandler(TRUE, [plog EXCEPT ![cur].tar = "fail", ![cur].diag = @ + 1,
                                             ![cur].result = "failed"])
            /\ UNCHANGED <<registry, aux>>
       ELSE IF ~tar1 /\ nilReader
       THEN \* ioutil.ReadAll(layerData2) on a nil reader
            /\ plog' = [plog EXCEPT ![cur].tar = "nil", ![cur].result = "failed"]
            /\ pc' = "panic"
            /\ UNCHANGED <<cur, jsonRaw, ret, registry, aux>>
       ELSE /\ registry' = IF a = 200
                           THEN [registry EXCEPT ![cur].layer = Received(graph[cur].layer, tar1)]
                           ELSE registry
            /\ aux' = [aux EXCEPT !.faithful = @ /\ a = 200, !.wrote = @ \/ a = 200]
            /\ EndHandler(~XferOk(a),
                 [plog EXCEPT ![cur].tar = IF tar1 THEN "ok" ELSE "short",
                              ![cur].to = TransferTarget(plog, cur),
                              ![cur].xfer = a, ![cur].xferN = @ + 1,
                              ![cur].diag = IF XferOk(a) THEN @ ELSE @ + 1,
                              ![cur].result = IF XferOk(a) THEN "ok" ELSE "failed"])
  /\ UNCHANGED <<peer, graph, cmd, arg, history, fetched, runs, moved, origin, glog>>

\* Every image of the chain of leaf went through all three phases with
\* success in the invocation that just ended.
PushedInFull(leaf) ==
  /\ Exists(graph, leaf)
  /\ \A i \in ChainIds(graph, leaf) :
       plog[i].meta = 200 /\ plog[i].neg = 307 /\ plog[i].negLoc
       /\ plog[i].tar = "ok" /\ plog[i].xfer = 200

\* CmdPush returns nil; the invocation is over.
PushReturn ==
  /\ cmd = "push" /\ pc = "done"
  /\ cmd' = "none"
  /\ pc' = "idle"
  /\ arg' = 0
  /\ plog' = EmptyPlog
  /\ aux' = [InitAux(graph) EXCEPT !.synced = IF PushedInFull(arg) /\ ~moved THEN arg
                                                ELSE aux.synced]
  /\ UNCHANGED <<peer, graph, registry, cur, jsonRaw, history, fetched, ret, runs, moved, origin, glog>>

PushNext ==
  \/ \E leaf \in Leaves : StartPush(leaf)
  \/ PushVisit
  \/ PushMetadata
  \/ PushNegotiate
  \/ PushTransfer
  \/ PushReturn

SpecPush == Init /\ [][PushNext]_vars

\* The steps of a push that was started.
PushStep ==
  \/ PushVisit
  \/ PushMetadata
  \/ PushNegotiate
  \/ PushTransfer
  \/ PushReturn

\* A push that was started keeps running: every request gets its answer or
\* its transport error, every read of a file or of an archive ends, and the
\* goroutine of the command is scheduled.
SpecPushFair == SpecPush /\ WF_vars(PushStep)

-----------------------------------------------------------------------------
(* What a registry may send back to pull *)

\* A body that is no JSON.
Malformed == <<"{">>

\* The record the registry serves for image id: the metadata it was given,
\* or a record of its own.
RecordText(r, id) ==
  IF r[id].json # NoJson THEN r[id].json ELSE Marshal(Image(id, id - 1, <<"a">>))

RECURSIVE ConcatRecords(_, _)
ConcatRecords(r, seq) ==
  IF seq = <<>> THEN <<>> ELSE RecordText(r, Head(seq)) \o ConcatRecords(r, Tail(seq))

\* target, target-1, ..., 1: the ancestor chain of target.
RECURSIVE ChainSeq(_)
ChainSeq(id) == IF id = 0 THEN <<>> ELSE <<id>> \o ChainSeq(id - 1)

\* Manifests of an arbitrary registry: up to MaxManifest records in any
\* order (an id may occur twice), and the ancestor chain of the target.
ManifestSeqs(target) ==
  { q \in UNION { [1..n -> Ids] : n \in 0..MaxManifest } :
      \A k \in 1..(Len(q) - 1) : q[k] <= q[k + 1] }
  \cup { ChainSeq(target) }

\* A record that is no JSON because a member has the bare word null for its
\* key: {"id":"<id>",null:null}
NullKeyRecord(id) == <<"{">> \o Member("id", IdChars(id)) \o <<",", "null", ":", "null", "}">>

\* Every answer that is a response carries a status code: 200, or one of the
\* failures 404 and 500; status 0 stands for no response (a transport error,
\* a body that could not be read).  A failure may come with an error page or
\* with a body like that of a success.
\*
\* Answers to GET <base>/<id>/history: a transport error, a failed read of
\* the body, or a body: a stream of records, a stream that breaks off in a
\* malformed record after none or some well-formed ones, or a stream whose
\* one record has a null key.  stream and records tell what the registry
\* put in the body.
HistoryAnswers(r, target) ==
  { [err |-> "transport", status |-> 0, body |-> <<>>, stream |-> "error", records |-> 0],
    [err |-> "read", status |-> 0, body |-> <<>>, stream |-> "error", records |-> 0],
    [err |-> "nil", status |-> 500, body |-> Malformed, stream |-> "broken", records |-> 0],
    [err |-> "nil", status |-> 200, body |-> ConcatRecords(r, ChainSeq(target)) \o Malformed,
     stream |-> "broken", records |-> Len(ChainSeq(target))],
    [err |-> "nil", status |-> 200, body |-> NullKeyRecord(target), stream |-> "nullkey",
     records |-> 0],
    [err |-> "nil", status |-> 404, body |-> ConcatRecords(r, ChainSeq(target)),
     stream |-> "records", records |-> Len(ChainSeq(target))] }
  \cup { [err |-> "nil", status |-> 200, body |-> ConcatRecords(r, q),
          stream |-> IF q = <<>> THEN "empty" ELSE "records", records |-> Len(q)] :
          q \in ManifestSeqs(target) }

\* The registry holds the metadata of the whole chain of target and serves it.
ContractHistory(r, target, a) ==
  /\ a.err = "nil"
  /\ \A i \in 1..target : r[i].json # NoJson
  /\ a.body = ConcatRecords(r, ChainSeq(target))

\* A metadata payload whose id is the literal null.
NullIdPayload(id) ==
  <<"{", "q", "id", "q", ":", "null", ",">> \o Member("parent", IdChars(id - 1))
    \o <<",">> \o Member("comment", <<"a">>) \o <<"}">>

\* A metadata payload that names another image than the one asked for.
WrongIdPayload(id) == Marshal(Image((id % MaxChain) + 1, id - 1, <<"a">>))

\* Answers to GET <base>/<id>/json.
JsonAnswers(r, id) ==
  { [err |-> "transport", status |-> 0, body |-> <<>>],
    [err |-> "read", status |-> 0, body |-> <<>>],
    [err |-> "nil", status |-> 404, body |-> Malformed],
    [err |-> "nil", status |-> 200, body |-> RecordText(r, id)],
    [err |-> "nil", status |-> 500, body |-> RecordText(r, id)],
    [err |-> "nil", status |-> 200, body |-> NullIdPayload(id)],
    [err |-> "nil", status |-> 200, body |-> WrongIdPayload(id)] }

ContractJson(r, id, a) == a.err = "nil" /\ r[id].json # NoJson /\ a.body = r[id].json

\* Answers to GET <base>/<id>/layer: a transport error, or a response whose
\* body is the layer the registry holds, an archive of its own, or an error
\* page (the status code is not looked at).
LayerAnswers(r, id) ==
  { [err |-> "transport", status |-> 0, body |-> NoArchive],
    [err |-> "nil", status |-> 404, body |-> ErrorPage] }
  \cup { [err |-> "nil", status |-> st,
          body |-> IF r[id].layer # NoArchive THEN r[id].layer ELSE Tar(LayerOf(id))] :
          st \in {200, 500} }

ContractLayer(r, id, a) == a.err = "nil" /\ r[id].layer # NoArchive /\ a.body = r[id].layer

-----------------------------------------------------------------------------
(* CmdPulli *)

\* The records of a decoded manifest, counted per id (the map is keyed by
\* record, so an id listed twice is ranged over twice).
BagOf(imgs) ==
  [i \in Ids |-> Cardinality({ k \in 1..Len(imgs) : imgs[k].Id = i })]

\* A pull that keeps going in case of error.
AfterErrorKeepGoing == "loop"

\* Where control goes once a step has failed: `return err`.
AfterError == "done"

\* A pull that sends its requests as PUTs.
PullMethodPut == "PUT"

\* http.Get: the method of the three requests of pull.
PullMethod == "GET"

\* The registry after it served a request for image id: the read endpoints
\* (GET history, json, layer) change nothing; a request of another method
\* may leave whatever it carried in place of the metadata.
Served(r, method, id) ==
  IF method = "GET" THEN r ELSE [r EXCEPT ![id].json = Malformed]

\* A pull that takes only a 200 for an answer.
StatusOkOnly200(status) == status = 200

\* getHistory and getRemoteImage never read res.StatusCode: every status
\* passes.
StatusOk(status) == TRUE

\* A step of pull failed with error e while working on image id (0: the
\* manifest).
PullFail(e, id, a) ==
  /\ ret' = IF ret = "nil" THEN e ELSE ret
  /\ pc' = AfterError
  /\ aux' = [a EXCEPT !.failed = id, !.pre = graph]

\* One more request or Register call went out: count it if an error was
\* already returned, and note whether it was answered as the contract says.
Sent(a, faithful) ==
  [a EXCEPT !.afterErr = IF ret = "nil" THEN @ ELSE @ + 1,
            !.faithful = @ /\ faithful]

StartPull(target) ==
  /\ cmd = "none" /\ runs < MaxRuns
  /\ cmd' = "pull"
  /\ runs' = runs + 1
  /\ arg' = target
  /\ ret' = "nil"
  /\ pc' = "history"
  /\ cur' = 0
  /\ plog' = EmptyPlog
  /\ glog' = EmptyGlog
  /\ history' = EmptyHistory
  /\ fetched' = NoFetched
  /\ aux' = [InitAux(graph) EXCEPT !.synced = aux.synced]
  /\ UNCHANGED <<peer, graph, registry, jsonRaw, moved, origin>>

\* getHistory: GET the manifest, read it, decode it.
PullGetHistory ==
  /\ cmd = "pull" /\ pc = "history"
  /\ \E a \in HistoryAnswers(registry, arg) :
       LET d == newMultipleImgJson(a.body)
           n == Sent([aux EXCEPT !.manifestN = @ + 1, !.stream = a.stream,
                                 !.records = a.records, !.status = a.status],
                     ContractHistory(registry, arg, a))
       IN IF a.err # "nil" THEN PullFail(a.err, 0, n) /\ UNCHANGED history
          ELSE IF ~StatusOk(a.status) THEN PullFail("status", 0, n) /\ UNCHANGED history
          ELSE IF ~d.ok THEN PullFail("parse", 0, n) /\ UNCHANGED history
          ELSE /\ history' = BagOf(d.imgs)
               /\ aux' = [n EXCEPT !.manifest = BagOf(d.imgs)]
               /\ pc' = "loop"
               /\ ret' = ret
  /\ registry' = Served(registry, PullMethod, arg)
  /\ UNCHANGED <<peer, graph, cmd, arg, cur, jsonRaw, fetched, runs, moved, origin,
                 plog, glog>>

\* A loop body that fetches without looking at the graph.
ShouldFetchAlways(g, id) == TRUE

\* if !srv.runtime.graph.Exists(j.Id)
ShouldFetch(g, id) == ~Exists(g, id)

\* A loop that stops at the first image the graph holds.
AfterPresentStop == "done"

\* The loop body has no else: after an image the graph holds, the next record.
AfterPresent == "loop"

\* for j := range history: the next record, in no particular order; the
\* image is fetched unless graph.Exists(j.Id).  Past the last record the
\* command returns.
PullExamine ==
  /\ cmd = "pull" /\ pc = "loop"
  /\ IF \A i \in Ids : history[i] = 0
     THEN /\ pc' = "done"
          /\ UNCHANGED <<history, cur, glog, aux>>
     ELSE \E id \in Ids :
            /\ history[id] > 0
            /\ history' = [history EXCEPT ![id] = @ - 1]
            /\ glog' = [glog EXCEPT ![id].exam = @ + 1,
                                    ![id].present = IF Exists(graph, id) THEN @ + 1 ELSE @]
            /\ IF ShouldFetch(graph, id)
               THEN pc' = "json" /\ cur' = id
               ELSE pc' = AfterPresent /\ cur' = 0
            /\ aux' = [aux EXCEPT !.first = IF @ = 0 THEN id ELSE @]
  /\ UNCHANGED <<peer, graph, registry, cmd, arg, jsonRaw, fetched, ret, runs, moved, origin,
                 plog>>

\* A getRemoteImage that keeps the id of the payload.
ForceIdNot(img, id) == img

\* img.Id = id
ForceId(img, id) == [img EXCEPT !.Id = id]

\* getRemoteImage, first half: GET the json, read it, decode it, and set the
\* id of the image to the id asked for.
PullGetJson ==
  /\ cmd = "pull" /\ pc = "json"
  /\ \E a \in JsonAnswers(registry, cur) :
       LET d == newImgJson(a.body)
           n == Sent(aux, ContractJson(registry, cur, a))
           g == [glog EXCEPT ![cur].jsonN = @ + 1, ![cur].json = a.body,
                             ![cur].jsonStatus = a.status]
       IN
         IF a.err # "nil" THEN PullFail(a.err, cur, n) /\ glog' = g /\ UNCHANGED fetched
         ELSE IF ~StatusOk(a.status)
           THEN PullFail("status", cur, n) /\ glog' = g /\ UNCHANGED fetched
         ELSE IF ~d.ok THEN PullFail("parse", cur, n) /\ glog' = g /\ UNCHANGED fetched
         ELSE /\ fetched' = [img |-> ForceId(d.img, cur), layer |-> NoArchive]
              /\ glog' = [g EXCEPT ![cur].payloadId = d.img.Id]
              /\ aux' = n
              /\ pc' = "layer"
              /\ ret' = ret
  /\ registry' = Served(registry, PullMethod, cur)
  /\ UNCHANGED <<peer, graph, cmd, arg, cur, jsonRaw, history, runs, moved, origin, plog>>

\* getRemoteImage, second half: GET the layer and hand back its body.
PullGetLayer ==
  /\ cmd = "pull" /\ pc = "layer"
  /\ \E a \in LayerAnswers(registry, cur) :
       /\ glog' = [glog EXCEPT ![cur].layerN = @ + 1, ![cur].layer = a.body,
                                ![cur].layerStatus = a.status]
       /\ IF a.err # "nil" \/ ~StatusOk(a.status)
          THEN /\ PullFail(IF a.err # "nil" THEN a.err ELSE "status", cur, Sent(aux, FALSE))
               /\ UNCHANGED fetched
          ELSE /\ fetched' = [fetched EXCEPT !.layer = a.body]
               /\ aux' = Sent(aux, ContractLayer(registry, cur, a))
               /\ pc' = "register"
               /\ ret' = ret
  /\ registry' = Served(registry, PullMethod, cur)
  /\ UNCHANGED <<peer, graph, cmd, arg, cur, jsonRaw, history, runs, moved, origin, plog>>

\* graph.Register(layer, img): the image and its layer land together, or an
\* error comes back and the graph is as before.  A stream that is no
\* complete archive cannot be unpacked.
Registered(g, img, layer) ==
  [g EXCEPT ![img.Id] = [exists |-> TRUE, img |-> img, layer |-> layer.content]]

PullRegister ==
  /\ cmd = "pull" /\ pc = "register"
  /\ \E stored \in BOOLEAN :
       IF stored /\ fetched.layer.fmt = "tgz" /\ fetched.img.Id \in Ids
       THEN /\ graph' = Registered(graph, fetched.img, fetched.layer)
            /\ glog' = [glog EXCEPT ![cur].regN = @ + 1,
                                    ![cur].stored = graph'[fetched.img.Id],
                                    ![cur].clash = Exists(graph, cur)]
            /\ aux' = Sent(aux, TRUE)
            /\ pc' = "loop"
            /\ ret' = ret
       ELSE /\ PullFail("storage", cur, Sent(aux, stored))
            /\ glog' = [glog EXCEPT ![cur].regN = @ + 1,
                                    ![cur].clash = Exists(graph, cur)]
            /\ graph' = graph
  /\ fetched' = NoFetched
  /\ cur' = 0
  /\ UNCHANGED <<peer, registry, cmd, arg, jsonRaw, history, runs, moved, origin, plog>>

\* CmdPulli has returned; the invocation is over.
PullReturn ==
  /\ cmd = "pull" /\ pc = "done"
  /\ cmd' = "none"
  /\ pc' = "idle"
  /\ arg' = 0
  /\ cur' = 0
  /\ ret' = "nil"
  /\ glog' = EmptyGlog
  /\ history' = EmptyHistory
  /\ fetched' = NoFetched
  /\ aux' = [InitAux(graph) EXCEPT !.synced = aux.synced]
  /\ UNCHANGED <<peer, graph, registry, jsonRaw, runs, moved, origin, plog>>

\* The client moves to a host whose local graph is empty.
NewHost ==
  /\ cmd = "none" /\ ~moved
  /\ moved' = TRUE
  /\ graph' = EmptyGraph
  /\ aux' = [InitAux(EmptyGraph) EXCEPT !.synced = aux.synced]
  /\ UNCHANGED <<peer, registry, cmd, pc, arg, cur, jsonRaw, history, fetched, ret, runs,
                 origin, plog, glog>>

PullNext ==
  \/ \E target \in Ids : StartPull(target)
  \/ PullGetHistory
  \/ PullExamine
  \/ PullGetJson
  \/ PullGetLayer
  \/ PullRegister
  \/ PullReturn
  \/ NewHost

SpecPull == Init /\ [][PullNext]_vars

Next ==
  \/ \E leaf \in Leaves : StartPush(leaf)
  \/ PushVisit
  \/ PushMetadata
  \/ PushNegotiate
  \/ PushTransfer
  \/ PushReturn
  \/ \E target \in Ids : StartPull(target)
  \/ PullGetHistory
  \/ PullExamine
  \/ PullGetJson
  \/ PullGetLayer
  \/ PullRegister
  \/ PullReturn
  \/ NewHost

Spec == Init /\ [][Next]_vars

\* One session of commands on one host: pushes on the host that holds the
\* chain, or pulls on a host whose graph starts empty.
InitSession ==
  /\ moved \in BOOLEAN
  /\ graph \in (IF moved THEN {EmptyGraph} ELSE Graphs)
  /\ registry = EmptyRegistry
  /\ cmd = "none"
  /\ pc = "idle"
  /\ arg = 0
  /\ cur = 0
  /\ jsonRaw = <<>>
  /\ history = EmptyHistory
  /\ fetched = NoFetched
  /\ ret = "nil"
  /\ runs = 0
  /\ origin = graph
  /\ plog = EmptyPlog
  /\ glog = EmptyGlog
  /\ aux = InitAux(graph)
  /\ peer = IdleLocals(graph)

NextSession ==
  \/ \E leaf \in Leaves : ~moved /\ StartPush(leaf)
  \/ PushVisit
  \/ PushMetadata
  \/ PushNegotiate
  \/ PushTransfer
  \/ PushReturn
  \/ \E target \in Ids : moved /\ StartPull(target)
  \/ PullGetHistory
  \/ PullExamine
  \/ PullGetJson
  \/ PullGetLayer
  \/ PullRegister
  \/ PullReturn

SpecSession == InitSession /\ [][NextSession]_vars

-----------------------------------------------------------------------------
(* Two pulls at the same time *)

\* Two invocations of CmdPulli run on one host, each in its own goroutine of
\* the server, and share the graph.  Every step of pull above is one piece of
\* work between two points where the scheduler may hand over: the step taken
\* is the step of the invocation whose locals are in cmd, pc, ..., aux, and
\* Handover exchanges them with the locals of the other invocation.  Each of
\* the two runs CmdPulli once, to its return.
Handover ==
  /\ cmd \in {"none", "pull"} /\ peer.cmd \in {"none", "pull"}
  /\ cmd # "none" \/ peer.cmd # "none"
  /\ peer' = Locals
  /\ cmd' = peer.cmd
  /\ pc' = peer.pc
  /\ arg' = peer.arg
  /\ cur' = peer.cur
  /\ history' = peer.history
  /\ fetched' = peer.fetched
  /\ ret' = peer.ret
  /\ glog' = peer.glog
  /\ aux' = peer.aux
  /\ UNCHANGED <<graph, registry, jsonRaw, runs, moved, origin, plog>>

\* A host whose graph is empty.
InitConcurrent == InitSession /\ moved

\* The registry the two invocations talk to serves what it is asked for or
\* does not answer: the manifest is the chain of the target, the metadata
\* the record of the image, the layer an archive, each with status 200, or
\* the request ends in a transport or read error.
WellServed ==
  /\ aux.status \in {0, 200}
  /\ aux.stream \in {"none", "error", "records"}
  /\ aux.stream = "records" => aux.manifest = [i \in Ids |-> IF i <= arg THEN 1 ELSE 0]
  /\ \A id \in Ids :
       /\ glog[id].jsonStatus \in {0, 200}
       /\ glog[id].json \in {<<>>, RecordText(registry, id)}
       /\ glog[id].layerStatus \in {0, 200}

NextConcurrent ==
  \/ \E target \in Ids : StartPull(target)
  \/ PullGetHistory /\ WellServed'
  \/ PullExamine
  \/ PullGetJson /\ WellServed'
  \/ PullGetLayer /\ WellServed'
  \/ PullRegister
  \/ Handover

SpecConcurrent == InitConcurrent /\ [][NextConcurrent]_vars

-----------------------------------------------------------------------------
(* Properties of push *)

PushRunning == cmd = "push"

PushDone == cmd = "push" /\ pc = "done"

\* The walk has gone past image id: its next ancestor is being visited or
\* was visited, or, for the last image of the chain, push has returned.
MovedOn(id) ==
  LET n == WalkNext(graph, id) IN
    IF n = 0 THEN pc = "done"
    ELSE plog[n].visited \/ (cur = n /\ pc = "visit")

\* C1: an image whose metadata PUT was answered 204 gets no negotiation PUT
\* and no transfer PUT in this invocation, and push has moved on to its next
\* ancestor.
C1_SkipOn204 ==
  \A id \in Ids :
    (PushRunning /\ plog[id].meta = 204) =>
      /\ plog[id].negN = 0
      /\ plog[id].xferN = 0
      /\ plog[id].result = "skipped"
      /\ MovedOn(id)

\* C1 witness: an image was answered 204 and the ancestor after it went
\* through its whole upload.
C1_Witness ==
  \E id \in Ids :
    /\ PushRunning /\ plog[id].meta = 204
    /\ WalkNext(graph, id) # 0
    /\ plog[WalkNext(graph, id)].xfer = 200

RECURSIVE SumTo(_, _)
SumTo(f, n) == IF n = 0 THEN 0 ELSE f[n] + SumTo(f, n - 1)

MetaPuts == SumTo([i \in Ids |-> plog[i].metaN], MaxChain)

Negotiations == SumTo([i \in Ids |-> plog[i].negN], MaxChain)

Transfers == SumTo([i \in Ids |-> plog[i].xferN], MaxChain)

ChainLen == Len(WalkHistory(graph, arg))

\* C2 as stated: a push that has returned issued exactly N metadata PUTs for
\* a chain of N images, and at most N negotiations and N transfers.
C2_ExactlyNMetadataPuts ==
  PushDone /\ Exists(graph, arg) =>
    /\ MetaPuts = ChainLen
    /\ Negotiations <= ChainLen
    /\ Transfers <= ChainLen

\* C2 amended: push never sends more than one metadata PUT, one negotiation
\* and one transfer per image of the chain, and none for other images; a
\* push that has returned visited every image of the chain and sent the
\* metadata PUT of exactly those whose persisted json could be read.
C2_OnePutPerReadableImage ==
  PushRunning =>
    LET chain == ChainIds(graph, arg) IN
      /\ \A i \in Ids :
           /\ plog[i].metaN <= 1 /\ plog[i].negN <= plog[i].metaN
           /\ plog[i].xferN <= plog[i].negN
           /\ plog[i].metaN = 1 => plog[i].read = "ok"
           /\ plog[i].visited => i \in chain
      /\ MetaPuts <= Cardinality(chain)
      /\ Negotiations <= Cardinality(chain)
      /\ Transfers <= Cardinality(chain)
      /\ pc = "done" =>
           \A i \in chain :
             /\ plog[i].visited
             /\ plog[i].metaN = (IF plog[i].read = "ok" THEN 1 ELSE 0)

\* C2 witness: push returned from the longest chain, of which one image
\* could not be read and every other image got its metadata PUT.
C2_Witness ==
  /\ PushDone /\ ChainLen = MaxChain
  /\ MetaPuts = ChainLen - 1
  /\ \E i \in Ids : plog[i].read = "fail"

\* The upload of image id failed at one of its three requests.
RequestFailed(id) ==
  \/ plog[id].metaN = 1 /\ plog[id].meta \notin {200, 204}
  \/ plog[id].negN = 1 /\ ~(plog[id].neg = 307 /\ plog[id].negLoc)
  \/ plog[id].xferN = 1 /\ plog[id].xfer # 200

\* C3: once a request of an image has failed, the walk goes on to the next
\* ancestor, and a push that has returned has run the handler on every image
\* of the chain, whatever failed.
C3_FailureIsolation ==
  PushRunning =>
    /\ \A id \in Ids : RequestFailed(id) => plog[id].result = "failed" /\ MovedOn(id)
    /\ pc = "done" => \A i \in ChainIds(graph, arg) : plog[i].visited

\* C3 witness: the transfer of an image was answered 500 and the ancestor
\* visited after it was uploaded in full.
C3_Witness ==
  /\ PushDone /\ arg = MaxChain
  /\ \E j \in Ids :
       /\ plog[j].xferN = 1 /\ plog[j].xfer = 500
       /\ WalkNext(graph, j) # 0
       /\ plog[WalkNext(graph, j)].result = "ok"

-----------------------------------------------------------------------------
(* Properties of pull *)

PullRunning == cmd = "pull"

PullDone == cmd = "pull" /\ pc = "done"

\* The image was absent when the invocation started and the manifest lists it.
Missing(id) == aux.manifest[id] > 0 /\ ~Exists(aux.start, id)

JsonGets == SumTo([i \in Ids |-> glog[i].jsonN], MaxChain)

LayerGets == SumTo([i \in Ids |-> glog[i].layerN], MaxChain)

Registers == SumTo([i \in Ids |-> glog[i].regN], MaxChain)

\* C4: pull sends a json GET for an id only for a record examined while the
\* id was absent from the graph; a record examined while Exists(id) holds
\* gets no json GET, no layer GET and no Register, so an id present when the
\* invocation started gets none at all.
C4_NoFetchWhenPresent ==
  PullRunning =>
    \A id \in Ids :
      /\ glog[id].jsonN <= glog[id].exam - glog[id].present
      /\ glog[id].layerN <= glog[id].jsonN
      /\ glog[id].regN <= glog[id].layerN
      /\ Exists(aux.start, id) =>
           /\ glog[id].present = glog[id].exam
           /\ glog[id].jsonN = 0 /\ glog[id].layerN = 0 /\ glog[id].regN = 0

\* C4 witness: a record was examined while its image was already present,
\* in an invocation that fetched and registered another image.
C4_Witness ==
  /\ PullRunning
  /\ \E id \in Ids, other \in Ids :
       /\ id # other
       /\ Exists(aux.start, id) /\ glog[id].present >= 1
       /\ glog[other].stored.exists

\* C5: once a step of pull has failed the command is over with that error:
\* no GET and no Register goes out after it.
C5_AbortOnError ==
  PullRunning =>
    /\ aux.afterErr = 0
    /\ ret # "nil" => pc = "done"
    /\ (ret # "nil" /\ aux.failed = 0) => JsonGets = 0 /\ LayerGets = 0 /\ Registers = 0

\* C5 witness: pull returned the error of a failed layer GET while a record
\* of an absent image was still waiting to be examined.
C5_Witness ==
  /\ PullDone /\ ret = "transport"
  /\ aux.failed # 0 /\ glog[aux.failed].layerN = 1
  /\ \E id \in Ids : id # aux.failed /\ history[id] > 0 /\ ~Exists(graph, id)

\* C6: a pull that returns nil has ranged over the whole manifest, every id
\* of the manifest exists locally, and it sent one json GET, one layer GET
\* and one Register for each id of the manifest that was absent before, and
\* none for any other id.
C6_CleanReturn ==
  (PullDone /\ ret = "nil") =>
    /\ aux.manifestN = 1
    /\ \A id \in Ids :
         /\ history[id] = 0
         /\ aux.manifest[id] > 0 => Exists(graph, id)
         /\ glog[id].jsonN = (IF Missing(id) THEN 1 ELSE 0)
         /\ glog[id].layerN = glog[id].jsonN
         /\ glog[id].regN = glog[id].jsonN
    /\ JsonGets = Cardinality({ id \in Ids : Missing(id) })
    /\ LayerGets = JsonGets
    /\ Registers = JsonGets

\* C6 witness: a pull of the whole chain into an empty graph returned nil
\* after one fetch and one registration per image.
C6_Witness ==
  /\ PullDone /\ ret = "nil"
  /\ aux.start = EmptyGraph
  /\ JsonGets = MaxChain /\ LayerGets = MaxChain /\ Registers = MaxChain

\* Pull returned an error raised while fetching or registering an ancestor
\* of the target.
AncestorFailed == PullDone /\ ret # "nil" /\ aux.failed \in 1..(arg - 1)

\* C7 as stated: when pull aborts on an ancestor of the target, the target
\* (absent before) is not in the local graph.
C7_TargetUnregistered ==
  (AncestorFailed /\ ~Exists(aux.start, arg)) => ~Exists(graph, arg)

\* C7 amended: when pull aborts on an ancestor of the target, the target is
\* in the local graph exactly if it was there before the failing fetch
\* began, that is if it was present at the start or its record was ranged
\* over and registered earlier; a target whose record is still waiting is
\* left unregistered.
C7_TargetUnregisteredUnlessEarlier ==
  AncestorFailed =>
    /\ Exists(graph, arg) <=> (Exists(aux.start, arg) \/ glog[arg].stored.exists)
    /\ Exists(graph, arg) <=> Exists(aux.pre, arg)
    /\ (history[arg] = aux.manifest[arg] /\ ~Exists(aux.start, arg)) => ~Exists(graph, arg)

\* C7 witness: pull aborted on an ancestor while the record of the target,
\* absent locally, had not been ranged over.
C7_Witness ==
  /\ AncestorFailed
  /\ history[arg] > 0 /\ history[arg] = aux.manifest[arg]
  /\ ~Exists(graph, arg)

\* C8: when pull returns an error the graph is the graph as it was before
\* the failing step: the image that failed does not exist, every image
\* registered earlier in the invocation is there as registered, every image
\* present before is untouched, and nothing else was added.
C8_GraphAsBeforeFailingStep ==
  (PullDone /\ ret # "nil") =>
    /\ graph = aux.pre
    /\ aux.failed # 0 => ~Exists(graph, aux.failed)
    /\ \A id \in Ids :
         /\ glog[id].stored.exists => graph[id] = glog[id].stored
         /\ Exists(aux.start, id) => graph[id] = aux.start[id]
         /\ Exists(graph, id) => (Exists(aux.start, id) \/ glog[id].stored.exists)

\* C8 witness: Register failed for one image after another image had been
\* registered in the same invocation.
C8_Witness ==
  /\ PullDone /\ ret = "storage" /\ aux.failed # 0
  /\ \E id \in Ids : id # aux.failed /\ glog[id].stored.exists /\ Exists(graph, id)

-----------------------------------------------------------------------------
(* Properties of push and pull together *)

\* The chain of image id in the graph the behaviour started with, and
\* nothing else.
OriginChain(id) == [i \in Ids |-> IF i <= id THEN origin[i] ELSE NoEntry]

\* A pull of the leaf of the last push, which pushed the whole chain with
\* success, has returned on a fresh host; the registry served what it holds
\* and the local store did not fail.
PulledAfterFullPush ==
  /\ PullDone /\ moved
  /\ aux.synced # 0 /\ aux.synced = arg
  /\ aux.start = EmptyGraph
  /\ aux.faithful

\* C9: after a push answered with success in every phase of every image, a
\* pull of the same leaf into an empty graph returns nil and leaves exactly
\* the images of the chain, each with the metadata and layer of the original.
C9_RoundTrip ==
  PulledAfterFullPush => (ret = "nil" /\ graph = OriginChain(arg))

\* The round trip for chains in which no metadata contains the letters "null".
RoundTripWithoutNull ==
  (PulledAfterFullPush /\ \A i \in 1..arg : origin[i].img.Comment = <<"a">>) =>
    (ret = "nil" /\ graph = OriginChain(arg))

\* The registry held every image of the chain in full when push started.
HeldInFull == aux.held

\* C10: a push of a chain the registry holds in full, answered by the
\* registry as its contract says, gets 204 to every metadata PUT, sends no
\* negotiation and no transfer, and leaves the registry as it was.
C10_PushIdempotent ==
  (PushRunning /\ Exists(graph, arg) /\ HeldInFull /\ aux.faithful) =>
    /\ \A i \in Ids :
         /\ plog[i].meta \in {-1, 204}
         /\ plog[i].negN = 0 /\ plog[i].xferN = 0
    /\ ~aux.wrote
    /\ \A i \in ChainIds(graph, arg) : HoldsInFull(registry, i)

\* C10 witness: a push of the whole chain returned with every metadata PUT
\* answered 204.
C10_Witness ==
  /\ PushDone /\ arg = MaxChain /\ HeldInFull /\ aux.faithful
  /\ \A i \in Ids : plog[i].meta = 204


-----------------------------------------------------------------------------
(* Retry by re-invocation *)

\* Push has returned from an invocation in which every local read and every
\* archive succeeded and the registry answered every request as its contract
\* says, accepting it.
AcceptedPush ==
  /\ PushDone /\ Exists(graph, arg) /\ aux.faithful
  /\ \A i \in ChainIds(graph, arg) : plog[i].read = "ok" /\ plog[i].tar # "fail"

\* C11: push keeps nothing from one invocation to the next and goes by the
\* answer to the metadata PUT alone.  Against a registry that answers as its
\* contract says, an image is skipped only if the registry holds it in full,
\* and the layer upload is attempted (again) only for an image whose layer
\* the registry does not hold, also when it kept the metadata from a failed
\* earlier push; a push whose every request is accepted ends with the
\* registry holding every image of the chain in full, each one skipped or
\* uploaded.
C11_RetryResumes ==
  PushRunning =>
    /\ \A i \in Ids :
         /\ (aux.faithful /\ plog[i].meta = 204) => HoldsInFull(registry, i)
         /\ (plog[i].metaN = 1 /\ plog[i].meta = 200) =>
              plog[i].negN = 1 \/ (cur = i /\ pc = "neg")
    /\ (aux.faithful /\ pc \in {"neg", "xfer"}) => registry[cur].layer = NoArchive
    /\ AcceptedPush =>
         \A i \in ChainIds(graph, arg) :
           /\ HoldsInFull(registry, i)
           /\ plog[i].result \in {"skipped", "ok"}
           /\ plog[i].result = "ok" => plog[i].negN = 1 /\ plog[i].xferN = 1

\* C11 witness: a push whose every request was accepted has returned; the
\* registry had kept part of an image from a failed earlier push, and this
\* push skipped one image and uploaded the layer of another.
C11_Witness ==
  /\ AcceptedPush /\ arg = MaxChain /\ aux.part
  /\ \E i \in Ids, j \in Ids : plog[i].result = "ok" /\ plog[j].result = "skipped"

-----------------------------------------------------------------------------
(* What push tells its caller *)

\* C12: CmdPush never hands an error to its caller: all along an invocation,
\* and when it is over, whatever the local reads and the registry yielded
\* and also when the leaf could not be resolved, the value returned is nil.
C12_PushReturnsNil ==
  PushRunning =>
    /\ ret = "nil"
    /\ (pc = "done" /\ ~Exists(graph, arg)) => \A i \in Ids : ~plog[i].visited

\* C12 witness: push has returned nil from a chain of which one image could
\* not be read and another met a transport error.
C12_Witness ==
  /\ PushDone /\ ret = "nil"
  /\ \E i \in Ids, j \in Ids : plog[i].read = "fail" /\ plog[j].metaN = 1 /\ plog[j].meta = 0


\* The upload of image id failed in some phase: the read of its json, one of
\* its requests, or the production and measuring of its archive.
UploadFailed(id) ==
  \/ plog[id].read = "fail"
  \/ RequestFailed(id)
  \/ plog[id].tar \in {"fail", "nil", "short"}

\* C13: every image whose upload failed in some phase got at least one
\* diagnostic line by the time the walk went on past it.
C13_NoSilentFailure ==
  PushRunning =>
    \A id \in Ids : (UploadFailed(id) /\ MovedOn(id)) => plog[id].diag >= 1

-----------------------------------------------------------------------------
(* The transfer request *)

\* C14: every transfer PUT declares as Content-Length the length of the
\* archive it sends as its body.
C14_ExactContentLength ==
  PushRunning => \A id \in Ids : plog[id].xferN = 1 => plog[id].tar = "ok"


-----------------------------------------------------------------------------
(* The metadata codec on its own *)

\* A field of a payload: the literal null, or a string.
NullField == [null |-> TRUE, chars |-> <<>>]

StringField(chars) == [null |-> FALSE, chars |-> chars]

IdFields == {NullField} \cup { StringField(IdChars(i)) : i \in 0..MaxChain }

CommentFields ==
  {NullField, StringField(<<>>), StringField(<<"a">>), StringField(<<"null", "a">>)}

\* "key":null or "key":"chars"
FieldText(key, f) ==
  IF f.null THEN <<"q", key, "q", ":", "null">> ELSE Member(key, f.chars)

\* The payload with the three fields p.id, p.parent, p.comment.
PayloadText(p) ==
  <<"{">> \o FieldText("id", p.id) \o <<",">> \o FieldText("parent", p.parent)
          \o <<",">> \o FieldText("comment", p.comment) \o <<"}">>

Payloads == [id : IdFields, parent : IdFields, comment : CommentFields]

\* A metadata payload arrives; nothing else is going on.
InitDecode ==
  /\ graph = EmptyGraph
  /\ registry = EmptyRegistry
  /\ cmd = "decode"
  /\ pc = "payload"
  /\ arg = 0
  /\ cur = 0
  /\ \E p \in Payloads : aux = [payload |-> p] /\ jsonRaw = PayloadText(p)
  /\ history = EmptyHistory
  /\ fetched = NoFetched
  /\ ret = "nil"
  /\ runs = 0
  /\ moved = FALSE
  /\ origin = graph
  /\ plog = EmptyPlog
  /\ glog = EmptyGlog
  /\ peer = IdleLocals(graph)

\* img, err := newImgJson(jsonString)
DecodePayload ==
  /\ cmd = "decode" /\ pc = "payload"
  /\ LET d == newImgJson(jsonRaw) IN
       /\ ret' = IF d.ok THEN "nil" ELSE "parse"
       /\ fetched' = [img |-> d.img, layer |-> NoArchive]
  /\ pc' = "decoded"
  /\ UNCHANGED <<peer, graph, registry, cmd, arg, cur, jsonRaw, history, runs, moved, origin,
                 plog, glog, aux>>

SpecDecode == InitDecode /\ [][DecodePayload]_vars

\* The value a field stands for: the zero value for null, else its string.
FieldValue(f) == IF f.null THEN <<>> ELSE f.chars

\* C15: a payload of which any fields are the literal null decodes without
\* error into the image whose null fields are empty and whose other fields
\* are those of the payload.
C15_NullTolerantDecode ==
  (cmd = "decode" /\ pc = "decoded") =>
    /\ ret = "nil"
    /\ fetched.img = Image(IdOf(FieldValue(aux.payload.id)),
                           IdOf(FieldValue(aux.payload.parent)),
                           FieldValue(aux.payload.comment))

\* The same for payloads in which no string contains the letters "null".
NullTolerantWithoutNullText ==
  (cmd = "decode" /\ pc = "decoded" /\ aux.payload.comment.chars # <<"null", "a">>) =>
    /\ ret = "nil"
    /\ fetched.img = Image(IdOf(FieldValue(aux.payload.id)),
                           IdOf(FieldValue(aux.payload.parent)),
                           FieldValue(aux.payload.comment))


-----------------------------------------------------------------------------
(* Order of the requests of push *)

\* C16: the negotiation PUT of an image goes out only after its metadata PUT
\* was answered 200, and its transfer PUT only after the negotiation was
\* answered 307 with a Location, to that Location; after any other answer
\* to the negotiation no transfer goes out for the image.
C16_PhaseGating ==
  PushRunning =>
    /\ pc = "neg" => plog[cur].metaN = 1 /\ plog[cur].meta = 200 /\ plog[cur].negN = 0
    /\ pc = "xfer" => plog[cur].negN = 1 /\ plog[cur].neg = 307 /\ plog[cur].negLoc
                      /\ plog[cur].xferN = 0
    /\ \A i \in Ids :
         /\ plog[i].negN = 1 => plog[i].metaN = 1 /\ plog[i].meta = 200
         /\ plog[i].xferN = 1 =>
              /\ plog[i].negN = 1 /\ plog[i].neg = 307 /\ plog[i].negLoc
              /\ plog[i].url = Location(i) /\ plog[i].to = plog[i].url
         /\ (plog[i].negN = 1 /\ ~(plog[i].neg = 307 /\ plog[i].negLoc)) =>
              plog[i].xferN = 0 /\ plog[i].to = NoUrl /\ plog[i].result = "failed"

\* C16 witness: one image was transferred to the Location it was given, and
\* another, answered 307 without a Location, got no transfer.
C16_Witness ==
  /\ PushDone
  /\ \E i \in Ids, j \in Ids :
       /\ plog[i].xferN = 1 /\ plog[i].to = Location(i)
       /\ plog[j].negN = 1 /\ plog[j].neg = 307 /\ ~plog[j].negLoc /\ plog[j].xferN = 0


\* Requests sent for image id in this invocation.
RequestsOf(id) == plog[id].metaN + plog[id].negN + plog[id].xferN

\* The handler has returned for image id.
HandlerOver(id) == plog[id].result # "none"

\* C17: push visits the chain from the leaf to the root, both included, one
\* image at a time: the images visited so far are the first k of the walk,
\* the handler is over for every one of them but the one being worked on, no
\* request has gone out for an image not yet visited, and a push that has
\* returned visited them all.
C17_LeafToRootSequential ==
  (PushRunning /\ Exists(graph, arg)) =>
    LET w == WalkHistory(graph, arg) IN
      \E k \in 0..Len(w) :
        /\ \A m \in 1..Len(w) :
             /\ plog[w[m]].visited <=> m <= k
             /\ m > k => RequestsOf(w[m]) = 0 /\ ~HandlerOver(w[m])
             /\ m < k => HandlerOver(w[m])
        /\ w[1] = arg
        /\ pc = "visit" => k < Len(w) /\ cur = w[k + 1] /\ (k > 0 => HandlerOver(w[k]))
        /\ pc \in {"meta", "neg", "xfer"} => k > 0 /\ cur = w[k] /\ ~HandlerOver(w[k])
        /\ pc = "done" => k = Len(w) /\ HandlerOver(w[k]) /\ WalkNext(graph, w[k]) = 0

\* C17 witness: the handler is over for the leaf, whose transfer was
\* answered, and the metadata PUT of its parent is about to go out.
C17_Witness ==
  /\ PushRunning /\ arg = MaxChain /\ pc = "meta"
  /\ cur = WalkNext(graph, arg)
  /\ plog[arg].xferN = 1 /\ HandlerOver(arg)
  /\ RequestsOf(cur) = 0


-----------------------------------------------------------------------------
(* No step is repeated *)

\* C18: within one invocation push sends at most one metadata PUT, one
\* negotiation PUT and one transfer PUT per image; pull sends one manifest
\* GET, and per image at most one json GET, one layer GET and one Register,
\* also when the manifest lists the image in more than one record.
C18_NoRetries ==
  /\ PushRunning =>
       \A i \in Ids : plog[i].metaN <= 1 /\ plog[i].negN <= 1 /\ plog[i].xferN <= 1
  /\ PullRunning =>
       /\ aux.manifestN = (IF pc = "history" THEN 0 ELSE 1)
       /\ \A i \in Ids :
            /\ glog[i].jsonN <= 1 /\ glog[i].layerN <= 1 /\ glog[i].regN <= 1
            /\ glog[i].exam <= aux.manifest[i]

\* C18 witness: pull has returned from a manifest that listed an absent
\* image twice; both records were ranged over and the image was fetched and
\* registered once.
C18_Witness ==
  /\ PullDone /\ ret = "nil"
  /\ \E i \in Ids :
       /\ aux.manifest[i] = 2 /\ glog[i].exam = 2 /\ ~Exists(aux.start, i)
       /\ glog[i].jsonN = 1 /\ glog[i].layerN = 1 /\ glog[i].regN = 1


-----------------------------------------------------------------------------
(* The id of a pulled image *)

\* C19: the image pull hands to Register carries the id that was asked for,
\* whatever id its json payload carried, and an image registered in this
\* invocation exists in the graph under the id asked for.
C19_RegisteredUnderRequestedId ==
  PullRunning =>
    /\ pc \in {"layer", "register"} => cur \in Ids /\ fetched.img.Id = cur
    /\ \A i \in Ids :
         glog[i].stored.exists =>
           /\ glog[i].stored.img.Id = i
           /\ Exists(graph, i) /\ graph[i].img.Id = i

\* C19 witness: two images were registered under the ids asked for, one
\* from a payload whose id was null and one from a payload that named
\* another image.
C19_Witness ==
  /\ PullRunning
  /\ \E i \in Ids, j \in Ids :
       /\ glog[i].payloadId = 0 /\ glog[i].stored.exists /\ Exists(graph, i)
       /\ glog[j].payloadId \in Ids \ {j} /\ glog[j].stored.exists /\ Exists(graph, j)


-----------------------------------------------------------------------------
(* Decoding the manifest *)

\* Records of the decoded manifest.
ManifestSize == SumTo(aux.manifest, MaxChain)

\* Nothing was ranged over, fetched or registered in this invocation.
NothingFetched ==
  /\ JsonGets = 0 /\ LayerGets = 0 /\ Registers = 0
  /\ \A i \in Ids : glog[i].exam = 0
  /\ graph = aux.start

\* The stream served as the manifest held a malformed record.
MalformedStream == aux.stream \in {"broken", "nullkey"}

\* C20: the manifest is decoded to the end of the stream and one malformed
\* record fails it as a whole.  After a stream with a malformed record pull
\* has returned a parse error without any json GET, layer GET or Register,
\* also when well-formed records came first; a stream decoded without error
\* yields one record per record served; an empty stream yields an empty
\* manifest and pull returns nil without fetching anything.
C20_ManifestDecoding ==
  (PullRunning /\ pc # "history") =>
    /\ MalformedStream =>
         pc = "done" /\ ret = "parse" /\ ManifestSize = 0 /\ NothingFetched
    /\ (aux.stream = "records" /\ ret # "parse") => ManifestSize = aux.records
    /\ aux.stream = "empty" =>
         /\ ManifestSize = 0 /\ NothingFetched
         /\ pc \in {"loop", "done"} /\ ret = "nil"

\* The same for malformed streams that are still malformed once every null
\* in them has been replaced.
ManifestDecodingUnlessNullKey ==
  (PullRunning /\ pc # "history" /\ aux.stream # "nullkey") => C20_ManifestDecoding

\* A manifest that broke off after the records of the whole chain made pull
\* return a parse error, the target being absent locally.
BrokenAfterRecords ==
  /\ PullDone /\ ret = "parse"
  /\ aux.stream = "broken" /\ aux.records = arg /\ arg = MaxChain
  /\ ~Exists(graph, arg)

-----------------------------------------------------------------------------
(* C21: no serialization per id *)

\* In one invocation, every GET of an image's JSON follows a record of that
\* id which this invocation itself found absent, and nothing else stands
\* between the check and the Register call.
Gated(g) ==
  \A id \in Ids :
    /\ g[id].jsonN <= g[id].exam - g[id].present
    /\ g[id].layerN <= g[id].jsonN
    /\ g[id].regN <= g[id].layerN

\* C21: when two pulls run at the same time on one graph, the only thing
\* that decides whether an invocation fetches and registers an id is its own
\* Exists check; there is no lock, so the id may be fetched by both
\* invocations and passed to Register by both.
C21_OnlyOwnExistsCheck ==
  /\ cmd = "pull" => Gated(glog)
  /\ peer.cmd = "pull" => Gated(peer.glog)
  /\ \A id \in Ids :
       (cmd = "pull" /\ glog[id].clash) =>
         (glog[id].present < glog[id].exam /\ Exists(graph, id))

\* One pull at a time never calls Register for an id the graph holds.
NoClashAlone == \A id \in Ids : ~glog[id].clash

\* Both invocations found the same id absent, both fetched it and both passed
\* it to Register.  The call of this invocation came when the graph already
\* held the id: the other invocation registered it after this one had looked
\* for it, so both looked before either registered.
C21_Witness ==
  /\ cmd = "pull" /\ peer.cmd = "pull"
  /\ \E id \in Ids :
       /\ ~Exists(aux.start, id) /\ ~Exists(peer.aux.start, id)
       /\ glog[id].clash /\ peer.glog[id].stored.exists
       /\ glog[id].present = 0 /\ peer.glog[id].present = 0
       /\ glog[id].jsonN = 1 /\ peer.glog[id].jsonN = 1
       /\ glog[id].layerN = 1 /\ peer.glog[id].layerN = 1
       /\ glog[id].regN = 1 /\ peer.glog[id].regN = 1

-----------------------------------------------------------------------------
(* C22: what the two protocols may change *)

\* C22: no step of a push changes the local graph, whatever the registry
\* answers; no step of a pull changes the registry (its requests are GETs);
\* and the graph changes in no step but the Register call of a pull, which
\* changes the entry of the image it was handed and no other.
C22_Frame ==
  [][ /\ (cmd = "push" \/ cmd' = "push") => graph' = graph
      /\ (cmd = "pull" \/ cmd' = "pull") => registry' = registry
      /\ graph' # graph =>
           /\ cmd = "pull" /\ pc = "register"
           /\ \A id \in Ids : id # cur => graph'[id] = graph[id] ]_vars

\* A pull has registered an image: the graph is no longer the one it started
\* with, and the registry is the one it started with.
C22_Witness ==
  /\ cmd = "pull" /\ graph # aux.start
  /\ \E id \in Ids : glog[id].regN = 1 /\ glog[id].stored.exists /\ Exists(graph, id)
  /\ registry = EmptyRegistry

-----------------------------------------------------------------------------
(* C23: termination of push *)

\* Push has returned and its handler was called for every image of the chain
\* of the leaf.
ReturnedAfterWholeChain ==
  /\ PushDone
  /\ \A i \in ChainIds(graph, arg) : plog[i].visited /\ HandlerOver(i)

\* C23: every push that was started returns, and has by then visited every
\* image of the chain from the leaf to the root, whatever the outcome of each
\* image, provided every request gets an answer or a transport error.
C23_PushTerminates == PushRunning ~> ReturnedAfterWholeChain

\* A push that does not get to its return has stopped in the read of the
\* archive that Tar did not produce.
TerminatesUnlessPanic == PushRunning ~> (ReturnedAfterWholeChain \/ pc = "panic")

\* The push stopped in the transfer of an image with ancestors still to visit.
StoppedBeforeRoot ==
  /\ PushRunning /\ pc = "panic"
  /\ \E i \in ChainIds(graph, arg) : ~plog[i].visited

-----------------------------------------------------------------------------
(* C24: the order of the records does not matter to a pull that succeeds *)

\* The entry Register leaves for image id out of the two bodies fetched for it.
EntryOf(id, json, layer) ==
  [exists |-> TRUE, img |-> ForceId(newImgJson(json).img, id), layer |-> layer.content]

\* What a pull that succeeds leaves and sends, told from the graph it started
\* with, the manifest and what the registry serves for each id alone: every
\* id of the manifest the graph did not hold was fetched once (one GET of its
\* json, one of its layer, one Register) and is held with the content
\* served; for every other id nothing was sent and its entry is as before.
OutcomeOf(start, manifest, g, log) ==
  \A id \in Ids :
    IF manifest[id] > 0 /\ ~Exists(start, id)
    THEN /\ log[id].jsonN = 1 /\ log[id].layerN = 1 /\ log[id].regN = 1
         /\ g[id] = EntryOf(id, log[id].json, log[id].layer)
    ELSE /\ log[id].jsonN = 0 /\ log[id].layerN = 0 /\ log[id].regN = 0
         /\ g[id] = start[id]

\* C24: the records of the manifest are ranged over in any order (PullExamine
\* takes any record left), and a pull that succeeds ends with the graph and
\* the requests that OutcomeOf tells, in which the order has no part: two
\* orders over the same manifest, graph and registry end alike.
C24_OrderIndependent ==
  (PullDone /\ ret = "nil" /\ aux.manifestN = 1) =>
    /\ aux.manifest = [i \in Ids |-> glog[i].exam]
    /\ OutcomeOf(aux.start, aux.manifest, graph, glog)

\* A pull of two absent images has succeeded, and the root was the first
\* record ranged over (the manifest lists the leaf first).
C24_Witness ==
  /\ PullDone /\ ret = "nil" /\ arg = 2
  /\ aux.manifest[1] = 1 /\ aux.manifest[2] = 1
  /\ ~Exists(aux.start, 1) /\ ~Exists(aux.start, 2)
  /\ aux.first = 1
  /\ glog[1].regN = 1 /\ glog[2].regN = 1

\* The same pull with the leaf ranged over first.
LeafFirst ==
  /\ PullDone /\ ret = "nil" /\ arg = 2
  /\ aux.manifest[1] = 1 /\ aux.manifest[2] = 1
  /\ ~Exists(aux.start, 1) /\ ~Exists(aux.start, 2)
  /\ aux.first = 2
  /\ glog[1].regN = 1 /\ glog[2].regN = 1

-----------------------------------------------------------------------------
(* C25: status codes are not looked at *)

\* A response came with a status that tells a failure.
FailureStatus(status) == status \in {404, 500}

\* C25: pull returns an error for one of four reasons only: a transport
\* error, a body that could not be read, JSON that could not be decoded, an
\* error of Register.  A response with a failure status is handled like any
\* other: a manifest that decodes is ranged over, metadata that decodes is
\* followed by the GET of the layer, and the body of a layer response is
\* handed to Register as the layer of that id.
C25_StatusNotInspected ==
  PullRunning =>
    /\ ret \in {"nil", "transport", "read", "parse", "storage"}
    /\ (FailureStatus(aux.status) /\ aux.stream = "records") =>
         aux.manifest = BagOf(newMultipleImgJson(
                                ConcatRecords(registry, ChainSeq(arg))).imgs)
    /\ \A id \in Ids :
         /\ (FailureStatus(glog[id].jsonStatus) /\ newImgJson(glog[id].json).ok) =>
              \/ glog[id].layerN = 1
              \/ cur = id /\ pc = "layer" /\ fetched.img.Id = id
         /\ FailureStatus(glog[id].layerStatus) =>
              \/ glog[id].regN = 1
              \/ /\ cur = id /\ pc = "register"
                 /\ fetched.layer = glog[id].layer /\ fetched.img.Id = id

\* The layer GET of an image was answered 500 with an archive for body, and
\* Register stored that body as the layer of the image.
C25_Witness ==
  /\ PullRunning
  /\ \E id \in Ids :
       /\ glog[id].layerStatus = 500 /\ glog[id].regN = 1
       /\ glog[id].stored.exists /\ Exists(graph, id)
       /\ graph[id].layer = glog[id].layer.content

\* The layer GET of an image was answered 404 with an error page, the page
\* went to Register, and the error pull returned is the one of Register.
ErrorPageRegistered ==
  /\ PullDone /\ ret = "storage"
  /\ \E id \in Ids :
       /\ glog[id].layerStatus = 404 /\ glog[id].layer = ErrorPage
       /\ glog[id].regN = 1 /\ aux.failed = id

\* Metadata that came with status 500 was decoded and the image registered.
FailedJsonRegistered ==
  /\ PullRunning
  /\ \E id \in Ids : glog[id].jsonStatus = 500 /\ glog[id].stored.exists

\* A manifest that came with status 404 was ranged over to the end.
FailedManifestPulled ==
  /\ PullDone /\ ret = "nil" /\ aux.status = 404
  /\ \E id \in Ids : glog[id].stored.exists

=============================================================================
